---- MODULE Spec2Model ----
(***************************************************************************)
(* Two-pass distributed watershed over a chunked 2-D array, after the two  *)
(* notebooks dask_image_watershed.ipynb (direct sharing of first-pass      *)
(* labels) and dask_image_watershed_v2.ipynb (sharing through a specially  *)
(* labelled chunk-boundary basin).                                         *)
(*                                                                         *)
(* A 2-D array is a sequence of rows, each a sequence of cells.  A chunked *)
(* (dask) array is a record [rch, cch, blocks]: the chunk sizes along the  *)
(* two axes and one 2-D array per block index <<i, j>>.                    *)
(***************************************************************************)
EXTENDS Integers, Sequences, FiniteSets, TLC

\* depth = 1 in both notebooks
depth == 1

----------------------------------------------------------------------------
(* numpy-style helpers on 2-D arrays *)

NRows(x) == Len(x)
NCols(x) == IF Len(x) = 0 THEN 0 ELSE Len(x[1])
Cells(x) == (1..NRows(x)) \X (1..NCols(x))

\* np.zeros_like / constant array of a given shape
Full(nr, nc, v) == [r \in 1..nr |-> [c \in 1..nc |-> v]]
zeros_like(x) == Full(NRows(x), NCols(x), 0)

\* x[r0..r1, c0..c1]
Slice(x, r0, r1, c0, c1) ==
    [r \in 1..(r1 - r0 + 1) |-> [c \in 1..(c1 - c0 + 1) |-> x[r0 + r - 1][c0 + c - 1]]]

Max(S) == CHOOSE m \in S : \A n \in S : n <= m
Min(S) == CHOOSE m \in S : \A n \in S : m <= n
Clamp(v, lo, hi) == IF v < lo THEN lo ELSE IF v > hi THEN hi ELSE v

\* F applied to the value of e, e evaluated once and held as an explicit
\* array (the comparison makes the evaluator enumerate it)
Eval(F(_), e) == CHOOSE res \in {F(v) : v \in {w \in {e} : w = w}} : TRUE

\* ws_markers.max()
ArrayMax(x) == Max({0} \cup {x[p[1]][p[2]] : p \in Cells(x)})

----------------------------------------------------------------------------
(* chunk geometry: da.from_array(a, chunks=chunks) *)

RECURSIVE SumTo(_, _)
SumTo(s, n) == IF n = 0 THEN 0 ELSE s[n] + SumTo(s, n - 1)

\* chunk sizes along an axis of length n cut every len cells; the last
\* chunk holds the remainder, and a len larger than n gives one chunk
ChunkSizes(n, len) ==
    LET full == n \div len
        rest == n % len
    IN  [i \in 1..(full + (IF rest > 0 THEN 1 ELSE 0)) |-> IF i <= full THEN len ELSE rest]

\* first global index of chunk i
Start(sizes, i) == 1 + SumTo(sizes, i - 1)
BlockOf(sizes, g) ==
    CHOOSE i \in 1..Len(sizes) : Start(sizes, i) <= g /\ g < Start(sizes, i) + sizes[i]

BlockIds(rch, cch) == (1..Len(rch)) \X (1..Len(cch))

from_array(a, chunks) ==
    LET rch == ChunkSizes(NRows(a), chunks[1])
        cch == ChunkSizes(NCols(a), chunks[2])
    IN  [rch |-> rch, cch |-> cch,
         blocks |-> [k \in BlockIds(rch, cch) |->
                       Slice(a, Start(rch, k[1]), Start(rch, k[1]) + rch[k[1]] - 1,
                                Start(cch, k[2]), Start(cch, k[2]) + cch[k[2]] - 1)]]

\* the cell of a chunked array at global coordinates
GlobalCell(x, gr, gc) ==
    LET i == BlockOf(x.rch, gr)
        j == BlockOf(x.cch, gc)
    IN  x.blocks[<<i, j>>][gr - Start(x.rch, i) + 1][gc - Start(x.cch, j) + 1]

\* .compute(): the chunked array assembled into one array
compute(x) ==
    [r \in 1..SumTo(x.rch, Len(x.rch)) |->
        [c \in 1..SumTo(x.cch, Len(x.cch)) |-> GlobalCell(x, r, c)]]

----------------------------------------------------------------------------
(* da.overlap.overlap and da.overlap.trim_overlap *)

Nearest == [kind |-> "nearest", value |-> 0]
Constant(v) == [kind |-> "constant", value |-> v]

\* a cell of the array extended past the domain edge by the boundary policy
PaddedCell(x, gr, gc, boundary) ==
    LET nr == SumTo(x.rch, Len(x.rch))
        nc == SumTo(x.cch, Len(x.cch))
    IN  IF gr \in 1..nr /\ gc \in 1..nc THEN GlobalCell(x, gr, gc)
        ELSE IF boundary.kind = "nearest"
             THEN GlobalCell(x, Clamp(gr, 1, nr), Clamp(gc, 1, nc))
             ELSE boundary.value

\* block k of overlap(x, d, boundary): the block's own cells and d cells on
\* every side, copied from the adjacent blocks or filled at the domain edge
OverlapBlockOf(x, k, d, boundary) ==
    LET r0 == Start(x.rch, k[1]) - d
        c0 == Start(x.cch, k[2]) - d
    IN  [r \in 1..(x.rch[k[1]] + 2 * d) |->
            [c \in 1..(x.cch[k[2]] + 2 * d) |->
                PaddedCell(x, r0 + r - 1, c0 + c - 1, boundary)]]

OverlapBlock(x, k, d, boundary) ==
    Eval(LAMBDA xv : OverlapBlockOf(xv, k, d, boundary), x)

OverlapOf(x, d, boundary) ==
    [rch |-> [i \in 1..Len(x.rch) |-> x.rch[i] + 2 * d],
     cch |-> [j \in 1..Len(x.cch) |-> x.cch[j] + 2 * d],
     blocks |-> [k \in DOMAIN x.blocks |-> OverlapBlockOf(x, k, d, boundary)]]

overlap(x, d, boundary) == Eval(LAMBDA xv : OverlapOf(xv, d, boundary), x)

\* the trim window one cell off: d - 1 cells cut in front, d + 1 behind
TrimBlockShifted(b, d) == Slice(b, d, NRows(b) - d - 1, d, NCols(b) - d - 1)

\* one block with d cells cut from every side
TrimBlock(b, d) == Slice(b, d + 1, NRows(b) - d, d + 1, NCols(b) - d)

TrimOf(x, d) ==
    [rch |-> [i \in 1..Len(x.rch) |-> x.rch[i] - 2 * d],
     cch |-> [j \in 1..Len(x.cch) |-> x.cch[j] - 2 * d],
     blocks |-> [k \in DOMAIN x.blocks |-> TrimBlock(x.blocks[k], d)]]

trim_overlap(x, d) == Eval(LAMBDA xv : TrimOf(xv, d), x)

----------------------------------------------------------------------------
(* the flood: watershed(image, markers=..., mask=...) *)

\* the neighbourhood of connectivity 1, in raveled order
Neighbors == << <<-1, 0>>, <<0, -1>>, <<0, 1>>, <<1, 0>> >>

\* the queue is ordered by elevation, then by insertion
Less(a, b) == a.value < b.value \/ (a.value = b.value /\ a.seq < b.seq)
HeapMin(h) == CHOOSE e \in h : \A f \in h : f = e \/ Less(e, f)

\* every nonzero marker is queued, in raveled order, and is its own label
FloodInit(image, markers) ==
    [out  |-> markers,
     heap |-> {[value |-> image[p[1]][p[2]], seq |-> (p[1] - 1) * NCols(image) + p[2],
                r |-> p[1], c |-> p[2]] : p \in {q \in Cells(markers) : markers[q[1]][q[2]] # 0}},
     age  |-> NRows(image) * NCols(image) + 1]

\* a flood that relabels a neighbour already labelled (it is not queued
\* again)
RECURSIVE VisitNeighborsOverwrite(_, _, _, _, _)
VisitNeighborsOverwrite(image, mask, e, i, st) ==
    IF i > Len(Neighbors) THEN st
    ELSE LET r == e.r + Neighbors[i][1]
             c == e.c + Neighbors[i][2]
         IN  IF ~(r \in 1..NRows(image) /\ c \in 1..NCols(image))
             THEN VisitNeighborsOverwrite(image, mask, e, i + 1, st)
             ELSE IF ~mask[r][c]
             THEN VisitNeighborsOverwrite(image, mask, e, i + 1, st)
             ELSE IF st.out[r][c] # 0
             THEN VisitNeighborsOverwrite(image, mask, e, i + 1,
                     [st EXCEPT !.out = [st.out EXCEPT ![r][c] = st.out[e.r][e.c]]])
             ELSE VisitNeighborsOverwrite(image, mask, e, i + 1,
                     [out  |-> [st.out EXCEPT ![r][c] = st.out[e.r][e.c]],
                      heap |-> st.heap \cup {[value |-> image[r][c], seq |-> st.age,
                                               r |-> r, c |-> c]},
                      age  |-> st.age + 1])

\* a neighbour outside the array or the mask is skipped, a labelled one is
\* left alone, any other takes the popped cell's label and is queued
RECURSIVE VisitNeighbors(_, _, _, _, _)
VisitNeighbors(image, mask, e, i, st) ==
    IF i > Len(Neighbors) THEN st
    ELSE LET r == e.r + Neighbors[i][1]
             c == e.c + Neighbors[i][2]
         IN  IF ~(r \in 1..NRows(image) /\ c \in 1..NCols(image))
             THEN VisitNeighbors(image, mask, e, i + 1, st)
             ELSE IF ~mask[r][c] \/ st.out[r][c] # 0
             THEN VisitNeighbors(image, mask, e, i + 1, st)
             ELSE VisitNeighbors(image, mask, e, i + 1,
                     [out  |-> [st.out EXCEPT ![r][c] = st.out[e.r][e.c]],
                      heap |-> st.heap \cup {[value |-> image[r][c], seq |-> st.age,
                                               r |-> r, c |-> c]},
                      age  |-> st.age + 1])

\* one pop of the queue
FloodStep(image, mask, st) ==
    LET e == HeapMin(st.heap)
    IN  VisitNeighbors(image, mask, e, 1, [st EXCEPT !.heap = st.heap \ {e}])

RECURSIVE Flood(_, _, _)
Flood(image, mask, st) ==
    IF st.heap = {} THEN st.out ELSE Flood(image, mask, FloodStep(image, mask, st))

NoMask(image) == Full(NRows(image), NCols(image), TRUE)

\* a flood that fails when there is no marker and returns no array
watershed_fails(image, markers, mask) ==
    IF \A p \in Cells(markers) : markers[p[1]][p[2]] = 0
    THEN << >>
    ELSE Flood(image, mask, FloodInit(image, markers))

watershed(image, markers, mask) == Flood(image, mask, FloodInit(image, markers))

----------------------------------------------------------------------------
(* the notebooks' helper functions *)

\* the cells within depth d of a face of the chunk
InRing(x, d, r, c) ==
    r <= d \/ r > NRows(x) - d \/ c <= d \/ c > NCols(x) - d

\* nothing taken from the neighbours
grab_overlap_none(chunk, d) == zeros_like(chunk)

\* v1: the outer ring of the chunk, zero elsewhere
grab_overlap(chunk, d) ==
    [r \in 1..NRows(chunk) |-> [c \in 1..NCols(chunk) |->
        IF InRing(chunk, d, r, c) THEN chunk[r][c] ELSE 0]]

\* the neighbours' labels alone, the original markers not written back
build_full_markers_no_seeds(labels, ws, d) == grab_overlap(ws, d)

\* v1: the neighbours' first-pass labels in the ring, the original markers
\* written over them wherever they are nonzero
build_full_markers(labels, ws, d) ==
    LET markers == grab_overlap(ws, d)
    IN  [r \in 1..NRows(labels) |-> [c \in 1..NCols(labels) |->
            IF labels[r][c] > 0 THEN labels[r][c] ELSE markers[r][c]]]

\* v2: the outer ring set to label, zero elsewhere
mask_overlap(chunk, d, label) ==
    [r \in 1..NRows(chunk) |-> [c \in 1..NCols(chunk) |->
        IF InRing(chunk, d, r, c) THEN label ELSE 0]]

\* v2: the boundary label in the ring, the markers written over it
build_full_markers_v2(labels, d, label) ==
    LET markers == mask_overlap(labels, d, label)
    IN  [r \in 1..NRows(labels) |-> [c \in 1..NCols(labels) |->
            IF labels[r][c] > 0 THEN labels[r][c] ELSE markers[r][c]]]

\* the label left in place
remove_label_none(chunk, label) == chunk

remove_label(chunk, label) ==
    [r \in 1..NRows(chunk) |-> [c \in 1..NCols(chunk) |->
        IF chunk[r][c] = label THEN 0 ELSE chunk[r][c]]]

\* the first pass kept everywhere
compose_keep_first(fp_chunk, sp_chunk, mask_chunk) == fp_chunk

compose(fp_chunk, sp_chunk, mask_chunk) ==
    [r \in 1..NRows(fp_chunk) |-> [c \in 1..NCols(fp_chunk) |->
        IF mask_chunk[r][c] THEN sp_chunk[r][c] ELSE fp_chunk[r][c]]]

\* ws_fp == boundary_label, one block
EqualsLabel(chunk, label) ==
    [r \in 1..NRows(chunk) |-> [c \in 1..NCols(chunk) |-> chunk[r][c] = label]]

\* skimage.measure.label(salt): the connected components of the salt cells
\* (full connectivity), numbered in raster order
Adjacent(p, q) ==
    p # q /\ p[1] - q[1] \in -1..1 /\ p[2] - q[2] \in -1..1

RECURSIVE Component(_, _)
Component(salt, S) ==
    LET T == S \cup {q \in salt : \E p \in S : Adjacent(p, q)}
    IN  IF T = S THEN S ELSE Component(salt, T)

Raster(p, nc) == (p[1] - 1) * nc + p[2]

label(salt, nr, nc) ==
    LET first(p) == Min({Raster(q, nc) : q \in Component(salt, {p})})
        firsts == {first(p) : p \in salt}
    IN  [r \in 1..nr |-> [c \in 1..nc |->
            IF <<r, c>> \in salt
            THEN Cardinality({f \in firsts : f <= first(<<r, c>>)})
            ELSE 0]]

----------------------------------------------------------------------------
(* the two pipelines, block by block *)

VARIABLES
    strategy,     \* "direct" (v1) or "sentinel" (v2)
    hmax,         \* the elevation image
    ws_markers,   \* the marker image
    chunks,       \* <<chunk_len, chunk_len>>
    ws_fp,        \* first-pass watershed, one padded array per block
    sp_markers,   \* second-pass markers: full_labels_op (v1), ws_markers_sp (v2)
    ws_sp,        \* second-pass watershed, one padded array per block
    ws_final,     \* trimmed result, one array per block
    pc,           \* the next task of each block
    fl_image,     \* one watershed call followed pop by pop: its image,
    fl_markers,   \*   its markers,
    fl_mask,      \*   its mask,
    fl_st,        \*   its output, queue and age counter,
    fl_pc         \*   and whether it has returned

pvars == <<strategy, hmax, ws_markers, chunks, ws_fp, sp_markers, ws_sp, ws_final, pc>>
fvars == <<fl_image, fl_markers, fl_mask, fl_st, fl_pc>>
vars == <<pvars, fvars>>

\* boundary_label = ws_markers.max() + 1
boundary_label(m) == ArrayMax(m) + 1

hmax_op(h, ch) == overlap(from_array(h, ch), depth, Nearest)

\* v1 pads the markers with their nearest value; v2 pads them with the
\* boundary label and then marks the whole ring
ws_markers_op(strat, m, ch) ==
    IF strat = "direct"
    THEN overlap(from_array(m, ch), depth, Nearest)
    ELSE LET op == overlap(from_array(m, ch), depth, Constant(boundary_label(m)))
         IN  [op EXCEPT !.blocks = [k \in DOMAIN op.blocks |->
                 build_full_markers_v2(op.blocks[k], depth, boundary_label(m))]]

Blocks == DOMAIN pc

\* the first-pass blocks as one chunked array
FpArray(fp, h, ch) ==
    LET op == hmax_op(h, ch)
    IN  [rch |-> op.rch, cch |-> op.cch, blocks |-> fp]

\* v1: ws_neighbors; v2: ws_markers_sp before the overlap
Shared(strat, fp, h, m, ch) ==
    LET x == FpArray(fp, h, ch)
    IN  IF strat = "direct"
        THEN trim_overlap(x, depth)
        ELSE trim_overlap([x EXCEPT !.blocks = [k \in DOMAIN x.blocks |->
                              remove_label(x.blocks[k], boundary_label(m))]], depth)

\* the second-pass markers of block k
SecondMarkers(strat, fp, h, m, ch, k) ==
    Eval(LAMBDA nb :
            IF strat = "direct"
            THEN Eval(LAMBDA x : build_full_markers(x, nb, depth),
                      ws_markers_op(strat, m, ch).blocks[k])
            ELSE nb,
         OverlapBlock(Shared(strat, fp, h, m, ch), k, depth, Nearest))

\* ws_mask of block k (v2); v1 floods without a mask
SecondMask(strat, fpk, m) ==
    IF strat = "direct" THEN NoMask(fpk) ELSE EqualsLabel(fpk, boundary_label(m))

\* the trimmed result of block k
FinalBlock(strat, fpk, spk, m) ==
    IF strat = "direct"
    THEN TrimBlock(spk, depth)
    ELSE TrimBlock(compose(fpk, spk, EqualsLabel(fpk, boundary_label(m))), depth)

\* only the block to the left
NeighborBlocksLeft(k) == {n \in Blocks : n[1] = k[1] /\ n[2] = k[2] - 1}

\* the blocks whose cells the overlap of block k reads
NeighborBlocks(k) ==
    {n \in Blocks : n # k /\ n[1] - k[1] \in -1..1 /\ n[2] - k[2] \in -1..1}

\* only the block's own first pass is awaited
ReadyOwn(k) == pc[k] # "fp"

\* the overlap of the first pass is computed from finished blocks only
Ready(k) == \A n \in NeighborBlocks(k) \cup {k} : pc[n] # "fp"

FirstPass(k) ==
    /\ pc[k] = "fp"
    /\ ws_fp' = [ws_fp EXCEPT ![k] =
          Eval(LAMBDA x : Eval(LAMBDA y : watershed(x, y, NoMask(x)),
                               ws_markers_op(strategy, ws_markers, chunks).blocks[k]),
               hmax_op(hmax, chunks).blocks[k])]
    /\ pc' = [pc EXCEPT ![k] = "markers"]
    /\ UNCHANGED <<strategy, hmax, ws_markers, chunks, sp_markers, ws_sp, ws_final, fvars>>

BuildMarkers(k) ==
    /\ pc[k] = "markers"
    /\ Ready(k)
    /\ sp_markers' = [sp_markers EXCEPT ![k] =
          SecondMarkers(strategy, ws_fp, hmax, ws_markers, chunks, k)]
    /\ pc' = [pc EXCEPT ![k] = "sp"]
    /\ UNCHANGED <<strategy, hmax, ws_markers, chunks, ws_fp, ws_sp, ws_final, fvars>>

SecondPass(k) ==
    /\ pc[k] = "sp"
    /\ ws_sp' = [ws_sp EXCEPT ![k] =
          Eval(LAMBDA x : Eval(LAMBDA z : watershed(x, sp_markers[k], z),
                               SecondMask(strategy, ws_fp[k], ws_markers)),
               hmax_op(hmax, chunks).blocks[k])]
    /\ pc' = [pc EXCEPT ![k] = "final"]
    /\ UNCHANGED <<strategy, hmax, ws_markers, chunks, ws_fp, sp_markers, ws_final, fvars>>

Finalize(k) ==
    /\ pc[k] = "final"
    /\ ws_final' = [ws_final EXCEPT ![k] =
          FinalBlock(strategy, ws_fp[k], ws_sp[k], ws_markers)]
    /\ pc' = [pc EXCEPT ![k] = "done"]
    /\ UNCHANGED <<strategy, hmax, ws_markers, chunks, ws_fp, sp_markers, ws_sp, fvars>>

\* the whole pipeline as one expression, every block of a pass computed
\* before the next pass begins
PipelineFrom(strat, h, m, ch, hop, mop) ==
    LET B == DOMAIN hop.blocks
        src == from_array(h, ch)
        Pass1 == [k \in B |-> watershed(hop.blocks[k], mop.blocks[k], NoMask(hop.blocks[k]))]
        Markers2(fp) == [k \in B |-> SecondMarkers(strat, fp, h, m, ch, k)]
        Pass2(fp, spm) == [k \in B |->
            Eval(LAMBDA mask : watershed(hop.blocks[k], spm[k], mask),
                 SecondMask(strat, fp[k], m))]
        Final(fp, sp) ==
            compute([rch |-> src.rch, cch |-> src.cch,
                     blocks |-> [k \in B |-> FinalBlock(strat, fp[k], sp[k], m)]])
    IN  Eval(LAMBDA fp :
            Eval(LAMBDA spm :
                Eval(LAMBDA sp : Final(fp, sp), Pass2(fp, spm)),
                Markers2(fp)),
            Pass1)

Pipeline(strat, h, m, ch) ==
    Eval(LAMBDA hop :
        Eval(LAMBDA mop : PipelineFrom(strat, h, m, ch, hop, mop),
             ws_markers_op(strat, m, ch)),
        hmax_op(h, ch))

\* ws = watershed(hmax, markers=ws_markers), the unchunked reference
ws(h, m) == watershed(h, m, NoMask(h))

----------------------------------------------------------------------------
(* the inputs *)

\* elevations are 0..MaxElev along the columns, at most MaxSeeds salt cells
MaxElev == 1
MaxSeeds == 2

\* an elevation that is a column profile plus a row profile
Separable(nr, nc, rv, cv) == [r \in 1..nr |-> [c \in 1..nc |-> rv[r] + cv[c]]]

RowShifts(nr) == {[r \in 1..nr |-> 0], [r \in 1..nr |-> r % 2], [r \in 1..nr |-> (r + 1) % 2]}

ColumnProfiles(nc) == [1..nc -> 0..MaxElev]

\* profiles that rise strictly from left to right
RisingProfiles(nc) ==
    {cv \in [1..nc -> 0..(nc - 1 + MaxElev)] : \A c \in 1..(nc - 1) : cv[c] < cv[c + 1]}

Elevations(nr, nc, profiles) ==
    {Separable(nr, nc, rv, cv) : rv \in RowShifts(nr), cv \in profiles}

\* the marker images label(salt) of at most MaxSeeds salt cells among sites
Markers(nr, nc, sites) ==
    {label(salt, nr, nc) : salt \in {S \in SUBSET sites : Cardinality(S) <= MaxSeeds}}

\* markers {(0,0): 1, (3,3): 2} of the 4x4 scenario
ScenarioMarkers == label({<<1, 1>>, <<4, 4>>}, 4, 4)

\* a 2x3 image with a pit below a ridge in its second row
PitElevations == {<<top, <<1, 0, 1>>>> : top \in ColumnProfiles(3)}

\* column profiles that start at 0
GroundedProfiles(nc) == {cv \in ColumnProfiles(nc) : cv[1] = 0}

\* one chunk (chunk_len larger than the image, as in v2); two chunks side by
\* side; the 4x4 grid cut into two 4x2 chunks, and as one chunk; three chunks
\* in a row; two chunks three cells wide; a 2x2 grid of chunks; two 4x4 chunks
Cases ==
    { [size |-> <<2, 3>>, chunks |-> <<4, 4>>,
       elev |-> PitElevations,
       markers |-> Markers(2, 3, {<<1, 1>>, <<1, 3>>, <<2, 2>>})],
      [size |-> <<2, 4>>, chunks |-> <<2, 2>>,
       elev |-> {Separable(2, 4, [r \in 1..2 |-> 0], cv) : cv \in GroundedProfiles(4)},
       markers |-> Markers(2, 4, {<<1, 1>>, <<2, 4>>})],
      [size |-> <<4, 4>>, chunks |-> <<4, 2>>,
       elev |-> Elevations(4, 4, RisingProfiles(4)),
       markers |-> {ScenarioMarkers}],
      [size |-> <<4, 4>>, chunks |-> <<4, 4>>,
       elev |-> {Separable(4, 4, [r \in 1..4 |-> 0], cv) : cv \in RisingProfiles(4)},
       markers |-> {ScenarioMarkers}],
      [size |-> <<2, 6>>, chunks |-> <<2, 2>>,
       elev |-> {Separable(2, 6, [r \in 1..2 |-> 0], [c \in 1..6 |-> c % 2])},
       markers |-> Markers(2, 6, {<<1, 1>>, <<2, 6>>})],
      [size |-> <<2, 6>>, chunks |-> <<2, 3>>,
       elev |-> {Separable(2, 6, [r \in 1..2 |-> 0], [c \in 1..6 |-> IF c = 6 THEN 1 ELSE 0]),
                 Separable(2, 6, [r \in 1..2 |-> 0], [c \in 1..6 |-> IF c = 1 THEN 1 ELSE 0])},
       markers |-> Markers(2, 6, {<<1, 1>>, <<1, 6>>, <<2, 4>>})],
      [size |-> <<4, 4>>, chunks |-> <<2, 2>>,
       elev |-> {Separable(4, 4, [r \in 1..4 |-> 0], [c \in 1..4 |-> 0])},
       markers |-> {ScenarioMarkers}],
      [size |-> <<4, 8>>, chunks |-> <<4, 4>>,
       elev |-> {Separable(4, 8, [r \in 1..4 |-> r % 2], [c \in 1..8 |-> IF c < 5 THEN c ELSE 8 - c])},
       markers |-> {label({<<1, 1>>, <<4, 8>>}, 4, 8)}] }

Strategies == {"direct", "sentinel"}

PInit ==
    \E case \in Cases : \E h \in case.elev : \E m \in case.markers : \E s \in Strategies :
        /\ strategy = s
        /\ hmax = h
        /\ ws_markers = m
        /\ chunks = case.chunks
        /\ LET op == hmax_op(h, case.chunks)
               src == from_array(h, case.chunks)
           IN  /\ ws_fp = [k \in DOMAIN op.blocks |-> zeros_like(op.blocks[k])]
               /\ sp_markers = [k \in DOMAIN op.blocks |-> zeros_like(op.blocks[k])]
               /\ ws_sp = [k \in DOMAIN op.blocks |-> zeros_like(op.blocks[k])]
               /\ ws_final = [k \in DOMAIN op.blocks |-> zeros_like(src.blocks[k])]
               /\ pc = [k \in DOMAIN op.blocks |-> "fp"]
        /\ fl_image = << >>
        /\ fl_markers = << >>
        /\ fl_mask = << >>
        /\ fl_st = [out |-> << >>, heap |-> {}, age |-> 0]
        /\ fl_pc = "idle"

PNext ==
    \E k \in Blocks : FirstPass(k) \/ BuildMarkers(k) \/ SecondPass(k) \/ Finalize(k)

Spec == PInit /\ [][PNext]_vars

----------------------------------------------------------------------------
(* one watershed call, pop by pop *)

\* masks of a 2x3 array: none, or one that leaves out a column
FloodMasks ==
    {NoMask(Full(2, 3, 0))} \cup
    {[r \in 1..2 |-> [c \in 1..3 |-> c # x]] : x \in 1..3}

FInit ==
    /\ \E h \in Elevations(2, 3, ColumnProfiles(3)) :
       \E m \in Markers(2, 3, (1..2) \X (1..3)) :
       \E z \in FloodMasks :
            /\ fl_image = h
            /\ fl_markers = m
            /\ fl_mask = z
            /\ fl_st = FloodInit(h, m)
    /\ fl_pc = "flooding"
    /\ strategy = "direct"
    /\ hmax = << >>
    /\ ws_markers = << >>
    /\ chunks = <<1, 1>>
    /\ ws_fp = << >>
    /\ sp_markers = << >>
    /\ ws_sp = << >>
    /\ ws_final = << >>
    /\ pc = << >>

\* heappop and the visit of the popped cell's neighbours
Pop ==
    /\ fl_pc = "flooding"
    /\ fl_st.heap # {}
    /\ fl_st' = FloodStep(fl_image, fl_mask, fl_st)
    /\ UNCHANGED <<fl_image, fl_markers, fl_mask, fl_pc, pvars>>

\* the queue is empty: the output is returned
Return ==
    /\ fl_pc = "flooding"
    /\ fl_st.heap = {}
    /\ fl_pc' = "returned"
    /\ UNCHANGED <<fl_image, fl_markers, fl_mask, fl_st, pvars>>

FNext == Pop \/ Return

FloodSpec == FInit /\ [][FNext]_vars

----------------------------------------------------------------------------
(* properties *)

AllDone == Blocks # {} /\ \A k \in Blocks : pc[k] = "done"

\* the global coordinates of cell <<r, c>> of the trimmed block k
GlobalOf(k, r, c) ==
    LET src == from_array(hmax, chunks)
    IN  <<Start(src.rch, k[1]) + r - 1, Start(src.cch, k[2]) + c - 1>>

\* ws_final.compute()
FinalArray ==
    LET src == from_array(hmax, chunks)
    IN  compute([rch |-> src.rch, cch |-> src.cch, blocks |-> ws_final])

\* the cells of the padded block that are not halo
Core(b) == {p \in Cells(b) : ~InRing(b, depth, p[1], p[2])}

\* C1: with the boundary-basin strategy no cell of a finished (composed and
\* trimmed) block carries the boundary label ws_markers.max() + 1
SentinelNeverLeaks ==
    \A k \in Blocks :
        (strategy = "sentinel" /\ pc[k] = "done") =>
            \A p \in Cells(ws_final[k]) : ws_final[k][p[1]][p[2]] # boundary_label(ws_markers)

\* a finished block of the boundary-basin strategy whose first pass had left
\* the boundary label on a cell that is kept by the trim
SentinelOverwritten ==
    \E k \in Blocks :
        /\ strategy = "sentinel"
        /\ pc[k] = "done"
        /\ \E p \in Core(ws_fp[k]) : ws_fp[k][p[1]][p[2]] = boundary_label(ws_markers)

\* C2: in both strategies every cell with a nonzero original marker has
\* that marker as its label in the finished block
SeedPrecedence ==
    \A k \in Blocks :
        pc[k] = "done" =>
            \A p \in Cells(ws_final[k]) :
                LET g == GlobalOf(k, p[1], p[2])
                IN  ws_markers[g[1]][g[2]] # 0 =>
                        ws_final[k][p[1]][p[2]] = ws_markers[g[1]][g[2]]

\* a finished block that holds a seed and whose second-pass markers carried
\* another label in the halo
SeedKeptAgainstNeighbour ==
    \E k \in Blocks :
        /\ pc[k] = "done"
        /\ \E p \in Cells(ws_final[k]) :
              LET g == GlobalOf(k, p[1], p[2])
              IN  /\ ws_markers[g[1]][g[2]] # 0
                  /\ \E q \in Cells(sp_markers[k]) :
                        /\ InRing(sp_markers[k], depth, q[1], q[2])
                        /\ sp_markers[k][q[1]][q[2]] \notin {0, ws_markers[g[1]][g[2]]}

\* the cells joined to p by a path of cells no higher than lim
RECURSIVE Reach(_, _, _)
Reach(h, lim, S) ==
    LET T == S \cup {q \in Cells(h) :
                        /\ h[q[1]][q[2]] <= lim
                        /\ \E p \in S : \E i \in 1..Len(Neighbors) :
                              q = <<p[1] + Neighbors[i][1], p[2] + Neighbors[i][2]>>}
    IN  IF T = S THEN S ELSE Reach(h, lim, T)

MutuallyReachable(h, p, q) ==
    q \in Reach(h, Max({h[p[1]][p[2]], h[q[1]][q[2]]}), {p})

BlockOfCell(g) ==
    LET src == from_array(hmax, chunks)
    IN  <<BlockOf(src.rch, g[1]), BlockOf(src.cch, g[2])>>

\* C3: after both passes, two cells of adjacent chunks that are joined
\* through the whole image by a path no higher than both carry one label
BoundaryContinuity ==
    AllDone =>
        \A p \in Cells(hmax) : \A q \in Cells(hmax) :
            (BlockOfCell(q) \in NeighborBlocks(BlockOfCell(p)) /\ MutuallyReachable(hmax, p, q))
                => FinalArray[p[1]][p[2]] = FinalArray[q[1]][q[2]]

\* C4: with one chunk the result of the two passes is the plain watershed
SingleChunkEquivalence ==
    (AllDone /\ Cardinality(Blocks) = 1) => FinalArray = ws(hmax, ws_markers)

\* the 4x4 grid rising from left to right in every row, cut into two 4x2
\* chunks, with markers {(0,0): 1, (3,3): 2}
IsScenario ==
    /\ NRows(hmax) = 4 /\ NCols(hmax) = 4
    /\ chunks = <<4, 2>>
    /\ ws_markers = ScenarioMarkers
    /\ \A r \in 1..4 : \A c \in 1..3 : hmax[r][c] < hmax[r][c + 1]

\* the columns on the two sides of the shared chunk boundary
BoundaryColumns == {2, 3}

Determinism ==
    AllDone => FinalArray = Pipeline(strategy, hmax, ws_markers, chunks)

\* a finished run over at least three blocks with two labels in the result
ManyBlocksDone ==
    /\ AllDone
    /\ Cardinality(Blocks) >= 3
    /\ \E k \in Blocks : \E j \in Blocks : \E p \in Cells(ws_final[k]) : \E q \in Cells(ws_final[j]) :
          ws_final[k][p[1]][p[2]] # ws_final[j][q[1]][q[2]]

\* C7: a block whose second-pass markers have been built has every adjacent
\* block past its first pass, and those markers are the ones computed from
\* the first-pass blocks as they stand (committed results only)
InterPassBarrier ==
    \A k \in Blocks :
        pc[k] \in {"sp", "final", "done"} =>
            /\ \A n \in Blocks : (n = k \/ Adjacent(n, k)) => pc[n] # "fp"
            /\ sp_markers[k] = SecondMarkers(strategy, ws_fp, hmax, ws_markers, chunks, k)

\* a block has read its neighbour's first pass while a block further away
\* has not yet run its own
BarrierIsLocal ==
    \E k \in Blocks : \E n \in Blocks : \E f \in Blocks :
        /\ pc[k] \in {"sp", "final", "done"}
        /\ Adjacent(n, k)
        /\ pc[f] = "fp"
        /\ \E p \in Cells(sp_markers[k]) : sp_markers[k][p[1]][p[2]] # 0

\* the depths tried for the overlap
MaxDepth == 2

MinExtent(x) == Min({x.rch[i] : i \in 1..Len(x.rch)} \cup {x.cch[j] : j \in 1..Len(x.cch)})

\* the chunked arrays of the run: elevation, markers, and the result so far
RunArrays ==
    LET src == from_array(hmax, chunks)
    IN  {src, from_array(ws_markers, chunks),
         [rch |-> src.rch, cch |-> src.cch, blocks |-> ws_final]}

\* C8: for the arrays of a finished run, every depth up to half the smallest
\* chunk extent and either boundary policy, trimming the overlapped array
\* gives the array back, chunk shapes and cells
TrimExchangeIdentity ==
    AllDone =>
        \A x \in RunArrays : \A d \in 1..MaxDepth :
            \A b \in {Nearest, Constant(boundary_label(ws_markers))} :
                2 * d <= MinExtent(x) => trim_overlap(overlap(x, d, b), d) = x

\* a finished run over several chunks that admit depth 2, with two labels
DeepOverlapCase ==
    /\ AllDone
    /\ Cardinality(Blocks) >= 2
    /\ 2 * MaxDepth <= MinExtent(from_array(hmax, chunks))
    /\ \E k \in Blocks : \E p \in Cells(ws_final[k]) : \E q \in Cells(ws_final[k]) :
          ws_final[k][p[1]][p[2]] # ws_final[k][q[1]][q[2]]

\* C9: within one watershed call a labelled cell keeps its label at every
\* pop, and at the return every marked cell has its marker
FirstFloodWins ==
    [][/\ \A p \in Cells(fl_st.out) :
             fl_st.out[p[1]][p[2]] # 0 => fl_st'.out[p[1]][p[2]] = fl_st.out[p[1]][p[2]]
       /\ fl_pc' = "returned" =>
             \A p \in Cells(fl_markers) :
                 fl_markers[p[1]][p[2]] # 0 => fl_st'.out[p[1]][p[2]] = fl_markers[p[1]][p[2]]]_vars

\* a returned call with two seeds of different labels that flooded a cell
FloodedBetweenSeeds ==
    /\ fl_pc = "returned"
    /\ \E p \in Cells(fl_markers) : \E q \in Cells(fl_markers) : \E x \in Cells(fl_markers) :
          /\ fl_markers[p[1]][p[2]] = 1
          /\ fl_markers[q[1]][q[2]] = 2
          /\ fl_markers[x[1]][x[2]] = 0
          /\ fl_st.out[x[1]][x[2]] = 2

IsEmpty(m) == \A p \in Cells(m) : m[p[1]][p[2]] = 0

SeedLabels == {ws_markers[p[1]][p[2]] : p \in Cells(ws_markers)} \ {0}

\* C11: in both strategies every cell of a finished block is 0 or carries a
\* label that some original seed marker of the domain carries
LabelClosure ==
    \A k \in Blocks :
        pc[k] = "done" =>
            \A p \in Cells(ws_final[k]) : ws_final[k][p[1]][p[2]] \in SeedLabels \cup {0}

\* a finished block of the boundary-basin strategy that holds no seed of
\* its own, whose first pass had the boundary label on a kept cell, and
\* which ends with a seed label received from a neighbour
LabelReceivedThroughHalo ==
    \E k \in Blocks :
        /\ strategy = "sentinel"
        /\ pc[k] = "done"
        /\ \A p \in Cells(ws_final[k]) :
              LET g == GlobalOf(k, p[1], p[2]) IN ws_markers[g[1]][g[2]] = 0
        /\ \E p \in Core(ws_fp[k]) : ws_fp[k][p[1]][p[2]] = boundary_label(ws_markers)
        /\ \E p \in Cells(ws_final[k]) : ws_final[k][p[1]][p[2]] \in SeedLabels

====
